---- MODULE Spec2Model ----
(***************************************************************************)
(* Exact inference over binary Bayesian belief networks (src/bbn.py).      *)
(*                                                                         *)
(* Probabilities are kept as exact integers in hundredths (One = 1.0), so  *)
(* a product of n factors is scaled by One^n; both sides of every          *)
(* comparison have the same number of factors.  Dictionaries are total     *)
(* functions over the label universe with NoVal marking an absent key.     *)
(* Python objects that can be aliased (the query dictionaries) live in a   *)
(* heap and are handled through references.                                *)
(***************************************************************************)
EXTENDS Integers, Sequences, FiniteSets, TLC

\* ------------------------------------------------------------ bounds
MaxCalls == 2        \* classify calls made on one network in a behaviour
MaxK     == 3        \* longest unknown list handed to _build_queries directly

\* ------------------------------------------------------------ values
One == 100           \* the literal 1 of "1-prob", in hundredths

NoVal == "-"         \* key absent from a dictionary
TruthVals == {"t", "f"}
Labels == {"e", "d", "hd", "cp", "bp"}
Keys == Labels \cup {"z"}            \* "z" is a label of no network
Dict == [Keys -> TruthVals \cup {NoVal}]
EmptyDict == [k \in Keys |-> NoVal]

DictKeys(dct) == {k \in Keys : dct[k] # NoVal}

\* results of a call: what classify returns or the exception it raises
EmptyQuery      == "BadQueryError: Query is empty"
UnknownVariable == "BadQueryError: Variable not in graph"
NoParentsError  == "BadQueryError: Node has no parents"
KeyError        == "KeyError"
TypeError       == "TypeError: reduce() of empty iterable with no initial value"
Booleans        == {"True", "False"}

\* ------------------------------------------------------------ BBN_Node
BBN_Node(p_table, label, parents) ==
    [p_table |-> p_table, label |-> label, parents |-> parents]

has_parents_always(self) == TRUE

has_parents(self) == self.parents # <<>>

\* get_prob: [err, val]; err = "none" when a probability is returned
get_prob_no_complement(self, val, parents_vals) ==
    IF self.parents = <<>> /\ parents_vals # ""
    THEN [err |-> NoParentsError, val |-> 0]
    ELSE IF self.parents = <<>>
    THEN IF "t" \in DOMAIN self.p_table
         THEN [err |-> "none", val |-> self.p_table["t"]]
         ELSE [err |-> KeyError, val |-> 0]
    ELSE IF parents_vals \in DOMAIN self.p_table
         THEN [err |-> "none", val |-> self.p_table[parents_vals]]
         ELSE [err |-> KeyError, val |-> 0]

get_prob(self, val, parents_vals) ==
    IF self.parents = <<>> /\ parents_vals # ""
    THEN [err |-> NoParentsError, val |-> 0]
    ELSE IF self.parents = <<>>
    THEN IF "t" \in DOMAIN self.p_table
         THEN LET prob == self.p_table["t"]
              IN  [err |-> "none", val |-> IF val = "t" THEN prob ELSE One - prob]
         ELSE [err |-> KeyError, val |-> 0]
    ELSE IF parents_vals \in DOMAIN self.p_table
         THEN LET prob == self.p_table[parents_vals]
              IN  [err |-> "none", val |-> IF val = "t" THEN prob ELSE One - prob]
         ELSE [err |-> KeyError, val |-> 0]

\* ------------------------------------------------------------ BBN
RECURSIVE LabelsOf(_)
LabelsOf(nodes) ==
    IF nodes = <<>> THEN <<>>
    ELSE LET rest == LabelsOf(Tail(nodes))
         IN  <<Head(nodes).label>> \o
             SelectSeq(rest, LAMBDA l : l # Head(nodes).label)

\* the constructor: graph is the label -> node dictionary, order its key order
BBN(nodes, target) ==
    [target |-> target,
     vars   |-> SelectSeq(LabelsOf(nodes), LAMBDA l : l # target),
     order  |-> LabelsOf(nodes),
     graph  |-> [l \in {nodes[i].label : i \in 1..Len(nodes)} |->
                   LET last == CHOOSE i \in 1..Len(nodes) :
                                 /\ nodes[i].label = l
                                 /\ \A j \in (i+1)..Len(nodes) : nodes[j].label # l
                   IN  nodes[last]]]

\* ''.join(list)
RECURSIVE join(_)
join(strs) == IF strs = <<>> THEN "" ELSE Head(strs) \o join(Tail(strs))

\* reduce(lambda x,y: x*y, probs) on a non-empty list
RECURSIVE reduce(_)
reduce(probs) ==
    IF Len(probs) = 1 THEN probs[1]
    ELSE reduce(SubSeq(probs, 1, Len(probs) - 1)) * probs[Len(probs)]

\* the for loop of _query from the i-th key of self.graph on: [err, probs]
RECURSIVE _query_loop(_, _, _)
_query_loop(self, q, i) ==
    IF i > Len(self.order) THEN [err |-> "none", probs |-> <<>>]
    ELSE LET node == self.order[i]
             cn   == self.graph[node]
         IN  IF has_parents(cn)
             THEN IF \E j \in 1..Len(cn.parents) :
                        cn.parents[j] \notin Keys \/ q[cn.parents[j]] = NoVal
                  THEN [err |-> KeyError, probs |-> <<>>]
                  ELSE IF q[node] = NoVal
                  THEN [err |-> KeyError, probs |-> <<>>]
                  ELSE LET p_vals == join([j \in 1..Len(cn.parents) |-> q[cn.parents[j]]])
                           p      == get_prob(cn, q[node], p_vals)
                           rest   == _query_loop(self, q, i + 1)
                       IN  IF p.err # "none" THEN [err |-> p.err, probs |-> <<>>]
                           ELSE IF rest.err # "none" THEN rest
                           ELSE [err |-> "none", probs |-> <<p.val>> \o rest.probs]
             ELSE _query_loop(self, q, i + 1)

\* _query: [err, val], the product over the nodes that have parents
_query(self, q) ==
    LET got == _query_loop(self, q, 1)
    IN  IF got.err # "none" THEN [err |-> got.err, val |-> 0]
        ELSE IF got.probs = <<>> THEN [err |-> TypeError, val |-> 0]
        ELSE [err |-> "none", val |-> reduce(got.probs)]

_get_unknowns(self, query) ==
    SelectSeq(self.order, LAMBDA node : query[node] = NoVal /\ node # self.target)

validate_no_membership(self, q) ==
    IF q = EmptyDict THEN EmptyQuery ELSE "ok"

\* the checks classify makes before it computes anything, lines 96-100
validate(self, q) ==
    IF q = EmptyDict THEN EmptyQuery
    ELSE IF \E var \in DictKeys(q) : var \notin DOMAIN self.graph THEN UnknownVariable
    ELSE "ok"

\* sum(list)
RECURSIVE sum(_)
sum(xs) == IF xs = <<>> THEN 0 ELSE Head(xs) + sum(Tail(xs))

\* ------------------------------------------------------------ heap
deepcopy_alias(h, ref) == [heap |-> h, ref |-> ref]

\* copy.deepcopy of the dictionary behind ref: a new object with equal contents
deepcopy(h, ref) == [heap |-> Append(h, h[ref]), ref |-> Len(h) + 1]

\* d[key] = val on the object behind ref
setitem(h, ref, key, val) == [h EXCEPT ![ref] = [@ EXCEPT ![key] = val]]

RECURSIVE _build_queries_inner_both_true(_, _, _, _)
_build_queries_inner_both_true(h, qs, u, n) ==
    IF n = 0 THEN [heap |-> h, queries |-> qs]
    ELSE LET current_query == Head(qs)
             tv == [heap |-> Append(h, h[current_query]), ref |-> Len(h) + 1]
             h1 == [tv.heap EXCEPT ![tv.ref] = [@ EXCEPT ![u] = "t"]]
             fv == [heap |-> Append(h1, h1[current_query]), ref |-> Len(h1) + 1]
             h2 == [fv.heap EXCEPT ![fv.ref] = [@ EXCEPT ![u] = "t"]]
         IN  _build_queries_inner_both_true(h2, Tail(qs) \o <<tv.ref, fv.ref>>, u, n - 1)

\* the inner loop of _build_queries for unknown u, n iterations left
RECURSIVE _build_queries_inner(_, _, _, _)
_build_queries_inner(h, qs, u, n) ==
    IF n = 0 THEN [heap |-> h, queries |-> qs]
    ELSE LET current_query == Head(qs)
             tv == deepcopy(h, current_query)
             h1 == setitem(tv.heap, tv.ref, u, "t")
             fv == deepcopy(h1, current_query)
             h2 == setitem(fv.heap, fv.ref, u, "f")
         IN  _build_queries_inner(h2, Tail(qs) \o <<tv.ref, fv.ref>>, u, n - 1)

\* ------------------------------------------------------------ networks
e_node  == BBN_Node("t" :> 70, "e", <<>>)
d_node  == BBN_Node("t" :> 25, "d", <<>>)
hd_node == BBN_Node("tt" :> 25 @@ "tf" :> 45 @@ "ft" :> 55 @@ "ff" :> 75, "hd", <<"e", "d">>)
cp_node == BBN_Node("t" :> 80 @@ "f" :> 1, "cp", <<"hd">>)
bp_node == BBN_Node("t" :> 85 @@ "f" :> 20, "bp", <<"hd">>)

ExampleNodes == <<e_node, d_node, hd_node, cp_node, bp_node>>

\* every node a root
RootNodes == <<e_node, d_node, BBN_Node("t" :> 50, "cp", <<>>)>>

\* hd's table lacks the entry for e = f, d = t
IncompleteNodes ==
    <<e_node, d_node,
      BBN_Node("tt" :> 25 @@ "tf" :> 45 @@ "ff" :> 75, "hd", <<"e", "d">>),
      cp_node>>

\* both values of hd score the same under every evidence
TieNodes ==
    <<e_node,
      BBN_Node("t" :> 50 @@ "f" :> 50, "hd", <<"e">>),
      BBN_Node("t" :> 80 @@ "f" :> 80, "cp", <<"hd">>)>>

Networks ==
    {BBN(ExampleNodes, "hd"), BBN(ExampleNodes, "e"), BBN(ExampleNodes, "cp"),
     BBN(RootNodes, "e"), BBN(IncompleteNodes, "hd"), BBN(TieNodes, "hd")}

\* ------------------------------------------------------------ state
VARIABLES
    bbn,                 \* the BBN object
    built,               \* the network as the constructor returned it
    pc,                  \* position of the running call
    heap,                \* the dictionaries; heap[1] is the caller's query
    q0,                  \* contents of the caller's query when classify was called
    unknowns,            \* classify's local, _build_queries' parameter
    queries,             \* the deque of _build_queries: references into heap
    ui,                  \* index of the unknown the outer loop is at
    qi,                  \* index of the query the scoring loop is at
    target_true_probs,
    target_false_probs,
    yes, no,             \* locals of _classify_all_evidence
    scored,              \* number of _query invocations of the running call
    result,              \* "none", "True", "False" or the exception raised
    returned             \* what the calls completed on this network gave, in order

vars == <<bbn, built, pc, heap, q0, unknowns, queries, ui, qi,
          target_true_probs, target_false_probs, yes, no, scored, result, returned>>

Init ==
    /\ bbn \in Networks
    /\ built = bbn
    /\ pc = "idle"
    /\ heap = <<>>
    /\ q0 = EmptyDict
    /\ unknowns = <<>>
    /\ queries = <<>>
    /\ ui = 0
    /\ qi = 0
    /\ target_true_probs = <<>>
    /\ target_false_probs = <<>>
    /\ yes = 0
    /\ no = 0
    /\ scored = 0
    /\ result = "none"
    /\ returned = <<>>

\* classify(q), lines 96-105: validation, unknowns, dispatch
classify_body(q) ==
    /\ pc = "idle"
    /\ Len(returned) < MaxCalls
    /\ heap' = <<q>>
    /\ q0' = q
    /\ scored' = 0
    /\ LET v == validate(bbn, q)
       IN  IF v # "ok"
           THEN /\ result' = v
                /\ pc' = "done"
                /\ UNCHANGED <<unknowns, queries, ui>>
           ELSE /\ result' = "none"
                /\ unknowns' = _get_unknowns(bbn, q)
                /\ IF unknowns' = <<>>
                   THEN /\ pc' = "all_evidence"
                        /\ UNCHANGED <<queries, ui>>
                   ELSE /\ pc' = "build_queries"
                        /\ queries' = <<1>>
                        /\ ui' = 1
    /\ UNCHANGED <<built, qi, target_true_probs, target_false_probs, yes, no, returned>>

classify_stores_unknowns(q) ==
    /\ classify_body(q)
    /\ bbn' = [bbn EXCEPT !.vars = _get_unknowns(bbn, q)]

\* classify reads self.graph and self.target and assigns no attribute of self
classify(q) ==
    /\ classify_body(q)
    /\ UNCHANGED bbn

\* _classify_all_evidence, lines 128-137
_classify_all_evidence ==
    /\ pc = "all_evidence"
    /\ LET h1 == setitem(heap, 1, bbn.target, "t")
           y  == _query(bbn, h1[1])
           h2 == setitem(h1, 1, bbn.target, "f")
           n  == _query(bbn, h2[1])
       IN  IF y.err # "none"
           THEN /\ heap' = h1
                /\ scored' = scored + 1
                /\ result' = y.err
                /\ UNCHANGED <<yes, no>>
           ELSE IF n.err # "none"
           THEN /\ heap' = h2
                /\ scored' = scored + 2
                /\ yes' = y.val
                /\ result' = n.err
                /\ UNCHANGED no
           ELSE /\ heap' = h2
                /\ scored' = scored + 2
                /\ yes' = y.val
                /\ no' = n.val
                /\ result' = IF y.val > n.val THEN "True" ELSE "False"
    /\ pc' = "done"
    /\ UNCHANGED <<bbn, built, q0, unknowns, queries, ui, qi,
                   target_true_probs, target_false_probs, returned>>

\* one iteration of the outer loop of _build_queries, lines 145-153;
\* after the last one the deque is returned and control goes to return_to
_build_queries(return_to) ==
    /\ pc = "build_queries"
    /\ ui <= Len(unknowns)
    /\ LET got == _build_queries_inner(heap, queries, unknowns[ui], Len(queries))
       IN  /\ heap' = got.heap
           /\ queries' = got.queries
    /\ ui' = ui + 1
    /\ IF ui = Len(unknowns)
       THEN /\ pc' = return_to
            /\ qi' = 1
       ELSE UNCHANGED <<pc, qi>>
    /\ UNCHANGED <<bbn, built, q0, unknowns, target_true_probs, target_false_probs,
                   yes, no, scored, result, returned>>

\* _classify_partial_evidence, lines 122-123, for the query at qi
_classify_partial_evidence_true ==
    /\ pc = "partial_true"
    /\ LET query == queries[qi]
           h1    == setitem(heap, query, bbn.target, "t")
           p     == _query(bbn, h1[query])
       IN  /\ heap' = h1
           /\ scored' = scored + 1
           /\ IF p.err # "none"
              THEN /\ result' = p.err
                   /\ pc' = "done"
                   /\ UNCHANGED target_true_probs
              ELSE /\ target_true_probs' = Append(target_true_probs, p.val)
                   /\ pc' = "partial_false"
                   /\ UNCHANGED result
    /\ UNCHANGED <<bbn, built, q0, unknowns, queries, ui, qi, target_false_probs,
                   yes, no, returned>>

\* _classify_partial_evidence, lines 124-125, for the query at qi
_classify_partial_evidence_false ==
    /\ pc = "partial_false"
    /\ LET query == queries[qi]
           h1    == setitem(heap, query, bbn.target, "f")
           p     == _query(bbn, h1[query])
       IN  /\ heap' = h1
           /\ scored' = scored + 1
           /\ IF p.err # "none"
              THEN /\ result' = p.err
                   /\ pc' = "done"
                   /\ UNCHANGED <<target_false_probs, qi>>
              ELSE /\ target_false_probs' = Append(target_false_probs, p.val)
                   /\ qi' = qi + 1
                   /\ pc' = IF qi = Len(queries) THEN "partial_return" ELSE "partial_true"
                   /\ UNCHANGED result
    /\ UNCHANGED <<bbn, built, q0, unknowns, queries, ui, target_true_probs,
                   yes, no, returned>>

sum_ge(true_probs, false_probs) == sum(true_probs) >= sum(false_probs)

\* line 126
sum_gt(true_probs, false_probs) == sum(true_probs) > sum(false_probs)

\* ------------------------------------------------------------ a whole call
\* _build_queries run to its end on heap h: the outer loop from unknown i on
RECURSIVE _build_queries_run(_, _, _, _)
_build_queries_run(h, qs, unk, i) ==
    IF i > Len(unk) THEN [heap |-> h, queries |-> qs]
    ELSE LET got == _build_queries_inner(h, qs, unk[i], Len(qs))
         IN  _build_queries_run(got.heap, got.queries, unk, i + 1)

\* the loop of _classify_partial_evidence from query i on: [err, t, f]
RECURSIVE _classify_partial_loop(_, _, _, _)
_classify_partial_loop(self, h, qs, i) ==
    IF i > Len(qs) THEN [err |-> "none", t |-> <<>>, f |-> <<>>]
    ELSE LET h1 == setitem(h, qs[i], self.target, "t")
             pt == _query(self, h1[qs[i]])
             h2 == setitem(h1, qs[i], self.target, "f")
             pf == _query(self, h2[qs[i]])
             rest == _classify_partial_loop(self, h2, qs, i + 1)
         IN  IF pt.err # "none" THEN [err |-> pt.err, t |-> <<>>, f |-> <<>>]
             ELSE IF pf.err # "none" THEN [err |-> pf.err, t |-> <<>>, f |-> <<>>]
             ELSE IF rest.err # "none" THEN rest
             ELSE [err |-> "none", t |-> <<pt.val>> \o rest.t, f |-> <<pf.val>> \o rest.f]

\* what classify(q) on network self returns or raises, lines 96-105 with
\* the two methods it dispatches to
classify_result(self, q) ==
    LET v == validate(self, q)
        unk == _get_unknowns(self, q)
    IN  IF v # "ok" THEN v
        ELSE IF unk = <<>>
        THEN LET h1 == setitem(<<q>>, 1, self.target, "t")
                 y  == _query(self, h1[1])
                 h2 == setitem(h1, 1, self.target, "f")
                 n  == _query(self, h2[1])
             IN  IF y.err # "none" THEN y.err
                 ELSE IF n.err # "none" THEN n.err
                 ELSE IF y.val > n.val THEN "True" ELSE "False"
        ELSE LET built_qs == _build_queries_run(<<q>>, <<1>>, unk, 1)
                 got == _classify_partial_loop(self, built_qs.heap, built_qs.queries, 1)
             IN  IF got.err # "none" THEN got.err
                 ELSE IF sum_gt(got.t, got.f) THEN "True" ELSE "False"

_classify_partial_evidence_return ==
    /\ pc = "partial_return"
    /\ result' = IF sum_gt(target_true_probs, target_false_probs) THEN "True" ELSE "False"
    /\ pc' = "done"
    /\ UNCHANGED <<bbn, built, heap, q0, unknowns, queries, ui, qi,
                   target_true_probs, target_false_probs, yes, no, scored, returned>>

\* the call has returned or raised; the caller goes on to its next call
Return ==
    /\ pc = "done"
    /\ pc' = "idle"
    /\ returned' = Append(returned, result)
    /\ heap' = <<>>
    /\ q0' = EmptyDict
    /\ unknowns' = <<>>
    /\ queries' = <<>>
    /\ ui' = 0
    /\ qi' = 0
    /\ target_true_probs' = <<>>
    /\ target_false_probs' = <<>>
    /\ yes' = 0
    /\ no' = 0
    /\ scored' = 0
    /\ result' = "none"
    /\ UNCHANGED <<bbn, built>>

\* the evidence a caller hands to classify: any binding of labels to t / f
\* that leaves the target out (docstring of classify, lines 84-85)
Queries(self) == {q \in Dict : q[self.target] = NoVal}

Next ==
    \/ /\ pc = "idle"
       /\ \E q \in Queries(bbn) : classify(q)
    \/ _classify_all_evidence
    \/ _build_queries("partial_true")
    \/ _classify_partial_evidence_true
    \/ _classify_partial_evidence_false
    \/ _classify_partial_evidence_return
    \/ Return

Spec == Init /\ [][Next]_vars

\* ------------------------------------------------------------ _build_queries alone
\* lists of at most n distinct labels
RECURSIVE LabelLists(_)
LabelLists(n) ==
    IF n = 0 THEN {<<>>}
    ELSE LET shorter == LabelLists(n - 1)
         IN  shorter \cup
             {Append(l, k) : l \in {x \in shorter : Len(x) = n - 1}, k \in Keys}

Distinct(l) == \A i, j \in 1..Len(l) : i # j => l[i] # l[j]

\* _build_queries(q, unknowns) called on its own, line 143; for an empty
\* unknown list the outer loop has no iteration and deque([q]) is returned
call_build_queries(q, unk) ==
    /\ pc = "idle"
    /\ Len(returned) < MaxCalls
    /\ heap' = <<q>>
    /\ q0' = q
    /\ unknowns' = unk
    /\ queries' = <<1>>
    /\ ui' = 1
    /\ pc' = IF unk = <<>> THEN "done" ELSE "build_queries"
    /\ UNCHANGED <<bbn, built, qi, target_true_probs, target_false_probs,
                   yes, no, scored, result, returned>>

BuildInit ==
    /\ Init
    /\ bbn = BBN(ExampleNodes, "hd")

BuildNext ==
    \/ /\ pc = "idle"
       /\ \E unk \in {l \in LabelLists(MaxK) : Distinct(l)} :
            \E q \in {d \in Dict : \A i \in 1..Len(unk) : d[unk[i]] = NoVal} :
               call_build_queries(q, unk)
    \/ _build_queries("done")
    \/ Return

BuildSpec == BuildInit /\ [][BuildNext]_vars

\* ============================================================ properties
\* ------------------------------------------------------------ vocabulary
RECURSIVE Pow2(_)
Pow2(n) == IF n = 0 THEN 1 ELSE 2 * Pow2(n - 1)

Range(l) == {l[i] : i \in 1..Len(l)}

NonTarget(g) == DOMAIN g.graph \ {g.target}

\* the non-target labels a query leaves unbound
Unbound(g, q) == {l \in NonTarget(g) : q[l] = NoVal}

Parented(g) == {l \in DOMAIN g.graph : g.graph[l].parents # <<>>}

\* every truth combination of n parents, as a table key
RECURSIVE AllKeys(_)
AllKeys(n) == IF n = 0 THEN {""} ELSE {a \o b : a \in TruthVals, b \in AllKeys(n - 1)}

\* the ancestors of label l found within d steps
RECURSIVE Reach(_, _, _)
Reach(g, l, d) ==
    IF d = 0 THEN {}
    ELSE LET ps == Range(g.graph[l].parents)
         IN  ps \cup UNION {Reach(g, p, d - 1) : p \in ps}

\* acyclic, every reference resolves, every parented node has a full table
WellFormed(g) ==
    /\ g.target \in DOMAIN g.graph
    /\ \A l \in DOMAIN g.graph : Range(g.graph[l].parents) \subseteq DOMAIN g.graph
    /\ \A l \in DOMAIN g.graph : l \notin Reach(g, l, Cardinality(DOMAIN g.graph))
    /\ \A l \in Parented(g) : AllKeys(Len(g.graph[l].parents)) \subseteq DOMAIN g.graph[l].p_table

\* a non-empty binding of non-target network labels to t / f
ValidQuery(g, q) ==
    /\ q # EmptyDict
    /\ DictKeys(q) \subseteq NonTarget(g)

\* P(l = a[l] | parents of l as a binds them, in declared order), in hundredths
CondProb(g, l, a) ==
    LET nd  == g.graph[l]
        key == join([i \in 1..Len(nd.parents) |-> a[nd.parents[i]]])
    IN  IF a[l] = "t" THEN nd.p_table[key] ELSE One - nd.p_table[key]

\* the joint score: the product of CondProb over the labels in S
RECURSIVE ProductOver(_, _, _)
ProductOver(S, g, a) ==
    IF S = {} THEN 1
    ELSE LET l == CHOOSE x \in S : TRUE
         IN  CondProb(g, l, a) * ProductOver(S \ {l}, g, a)

JointScore(g, a) == ProductOver(Parented(g), g, a)

\* query q completed by hidden bindings hid, the target bound to tv
Completion(g, q, hid, tv) ==
    [k \in Keys |-> IF k = g.target THEN tv
                    ELSE IF k \in DOMAIN hid THEN hid[k]
                    ELSE q[k]]

RECURSIVE SumOver(_, _, _, _)
SumOver(H, g, q, tv) ==
    IF H = {} THEN 0
    ELSE LET hid == CHOOSE x \in H : TRUE
         IN  JointScore(g, Completion(g, q, hid, tv)) + SumOver(H \ {hid}, g, q, tv)

\* the joint scores of all completions of q with the target bound to tv, summed
SumScores(g, q, tv) == SumOver([Unbound(g, q) -> TruthVals], g, q, tv)

ExampleQuery == [EmptyDict EXCEPT !["e"] = "f", !["d"] = "t", !["cp"] = "t", !["bp"] = "t"]
ExamplePartialQuery == [EmptyDict EXCEPT !["e"] = "f", !["cp"] = "t", !["bp"] = "t"]

C3_QueryValidation ==
    (pc = "done" /\ (q0 = EmptyDict \/ \E k \in DictKeys(q0) : k \notin DOMAIN bbn.graph)) =>
        /\ result = IF q0 = EmptyDict THEN EmptyQuery ELSE UnknownVariable
        /\ scored = 0
        /\ heap = <<q0>>
        /\ queries = <<>>
        /\ bbn = built

C3_Witness ==
    /\ pc = "done"
    /\ returned = <<EmptyQuery>>
    /\ q0["z"] = "t"
    /\ result = UnknownVariable

\* ------------------------------------------------------------ C4
PriorValues == {0, 50, 100}

Roots(g) == DOMAIN g.graph \ Parented(g)

\* the networks that differ from g only in the tables of parentless nodes
PriorVariants(g) ==
    {[g EXCEPT !.graph = [l \in DOMAIN g.graph |->
                            IF l \in Roots(g)
                            THEN [g.graph[l] EXCEPT !.p_table = "t" :> pr[l]]
                            ELSE g.graph[l]]] :
        pr \in [Roots(g) -> PriorValues]}

\* C4: whatever probabilities the parentless nodes carry, classify gives the
\* same outcome (the same boolean or the same failure) for the same query.
C4_RootPriorsIgnored ==
    pc = "done" => \A alt \in PriorVariants(bbn) : classify_result(alt, q0) = result

C4_Witness ==
    /\ pc = "done"
    /\ bbn = BBN(ExampleNodes, "e")
    /\ q0["d"] = NoVal
    /\ q0["hd"] = "f"
    /\ result = "True"

\* ------------------------------------------------------------ C5
\* C5: when classify returns or fails, the caller's query holds exactly the
\* bindings it held when classify was called.
C5_QueryUnchanged ==
    pc = "done" => heap[1] = q0

\* what the code does keep: the caller's query is untouched whenever the call
\* fails validation or takes the partial-evidence path
QueryUnchangedOffFullPath ==
    (pc = "done" /\ (validate(bbn, q0) # "ok" \/ unknowns # <<>>)) => heap[1] = q0

\* ------------------------------------------------------------ C6
\* C6: no call changes the network, whether it returns or fails, and every
\* call gives what the same query gives on the network as constructed.
C6_NetworkReadOnly ==
    /\ bbn = built
    /\ pc = "done" => result = classify_result(built, q0)

C6_Witness ==
    /\ pc = "done"
    /\ returned = <<KeyError>>
    /\ result = "True"
    /\ bbn = built

\* ------------------------------------------------------------ C7
\* the most unknowns a non-empty query can leave in a network of all Labels
LargestK == Cardinality(Labels) - 2

\* C7: some limit on the number of unknowns is enforced: a call with more
\* unknowns than the limit fails before any completion is built.  A limit
\* no query can exceed shows nothing, so the limit is sought below LargestK.
C7_UnknownsCapped ==
    \E limit \in 0..(LargestK - 1) :
        Len(unknowns) > limit =>
            /\ Len(heap) = 1
            /\ result \notin Booleans

\* ------------------------------------------------------------ C8
\* C8: _build_queries holds 2^i mappings after the i-th unknown and returns
\* 2^k pairwise distinct mappings, each the query extended by a t / f binding
\* of every unknown, every such binding exactly once; for k = 0 it returns
\* the collection holding the original query alone.
C8_ExhaustiveEnumeration ==
    pc \in {"build_queries", "done"} =>
        /\ Len(queries) = Pow2(ui - 1)
        /\ pc = "done" =>
             LET k == Len(unknowns)
                 m(j) == heap[queries[j]]
             IN  /\ Len(queries) = Pow2(k)
                 /\ \A a, b \in 1..Len(queries) : a # b => m(a) # m(b)
                 /\ \A j \in 1..Len(queries) :
                      /\ \A key \in DictKeys(q0) : m(j)[key] = q0[key]
                      /\ \A u \in Range(unknowns) : m(j)[u] \in TruthVals
                      /\ DictKeys(m(j)) = DictKeys(q0) \cup Range(unknowns)
                 /\ \A hid \in [Range(unknowns) -> TruthVals] :
                      Cardinality({j \in 1..Len(queries) :
                                     \A u \in Range(unknowns) : m(j)[u] = hid[u]}) = 1
                 /\ k = 0 => (queries = <<1>> /\ heap = <<q0>>)

C8_Witness ==
    /\ pc = "done"
    /\ q0 = EmptyDict
    /\ unknowns = <<"e", "d">>
    /\ Len(queries) = 4

\* ------------------------------------------------------------ C9
\* the value the j-th completion binds the i-th of k unknowns to
Bit(j, i, k) == IF ((j - 1) \div Pow2(k - i)) % 2 = 0 THEN "t" ELSE "f"

\* the contents the j-th completion must have at the current position
ExpectedCompletion(j) ==
    [key \in Keys |->
        IF key = bbn.target
        THEN IF j < qi THEN "f"
             ELSE IF j = qi /\ pc = "partial_false" THEN "t"
             ELSE q0[key]
        ELSE IF key \in Range(unknowns)
        THEN Bit(j, CHOOSE i \in 1..Len(unknowns) : unknowns[i] = key, Len(unknowns))
        ELSE q0[key]]

OwnBindings ==
    pc \in {"partial_true", "partial_false", "partial_return"} =>
        /\ \A a, b \in 1..Len(queries) : a # b => queries[a] # queries[b]
        /\ \A j \in 1..Len(queries) : heap[queries[j]] = ExpectedCompletion(j)
        /\ \A j \in 1..Len(target_true_probs) :
             target_true_probs[j] =
                JointScore(bbn, [ExpectedCompletion(j) EXCEPT ![bbn.target] = "t"])
        /\ \A j \in 1..Len(target_false_probs) :
             target_false_probs[j] =
                JointScore(bbn, [ExpectedCompletion(j) EXCEPT ![bbn.target] = "f"])

OthersUnchanged ==
    pc \in {"partial_true", "partial_false"} =>
        \A j \in 1..Len(queries) : j # qi => heap'[queries[j]] = heap[queries[j]]

\* C9: the completions are separate objects: binding the target in one leaves
\* every other completion as it was at every step of the scoring loop, and
\* each score is the score of that completion's own bindings.
C9_NoAliasing == []OwnBindings /\ [][OthersUnchanged]_vars

C9_Witness ==
    /\ pc = "partial_false"
    /\ qi = 2
    /\ Len(queries) = 4
    /\ heap[queries[1]][bbn.target] = "f"
    /\ heap[queries[2]][bbn.target] = "t"
    /\ heap[queries[3]][bbn.target] = NoVal

\* ------------------------------------------------------------ C10
\* C10: on a well-formed network, a network without any parented node
\* included, classify returns a boolean for every valid query.
C10_TotalOnValidInput ==
    (pc = "done" /\ WellFormed(bbn) /\ ValidQuery(bbn, q0)) => result \in Booleans

\* what the code does keep: it is total once some node has parents
TotalWhenSomeNodeHasParents ==
    (pc = "done" /\ WellFormed(bbn) /\ ValidQuery(bbn, q0) /\ Parented(bbn) # {}) =>
        result \in Booleans

====
